---- MODULE Spec2Model ----
(***************************************************************************)
(* Model of CompleteConfigurableProcessor                                  *)
(* (src/scripts/complete_configurable_processor.py): the three processing  *)
(* modes (baseline, incremental, targeted) over one cache directory, the   *)
(* signature-based change detector, the metric counter and the KPI         *)
(* calculators.                                                            *)
(*                                                                         *)
(* Representation.                                                         *)
(*   - A Python dict is a function whose DOMAIN is its key set; {} is the  *)
(*     function with the empty domain.                                     *)
(*   - A table cell is a sequence: <<>> is NaN / empty, <<v>> is value v.   *)
(*   - A priority text is a sequence of one-character strings.             *)
(*   - Dates are day numbers; a day is rendered as text by DateStr.        *)
(*   - hashlib.md5 is taken to be injective: a fingerprint is the string   *)
(*     that is hashed.                                                     *)
(*   - Percentages (round(x, 1) in the source) are integers in tenths.     *)
(*   - A target whose configured value is null (None) is left out of       *)
(*     targets and named in the KPI's targets_null set.                    *)
(*   - datetime.now() as a timestamp is the value of clock, the number of  *)
(*     runs started; as a date it is the value of today.                   *)
(***************************************************************************)
EXTENDS Integers, Sequences, FiniteSets, TLC

VARIABLES
    config,     \* the parsed configuration the processor was built with
    cache,      \* the four blobs of the cache directory
    proc,       \* instance fields loaded by __init__
    result,     \* outcome of the last run (envelope or raised error)
    clock,      \* number of runs started so far
    baselined,  \* history: the current instance has completed a process_baseline
    today,      \* the day datetime.now() falls on
    call,       \* a call of one function of the program: its name and arguments
    ret,        \* what that call returned
    rerun       \* history: the last run was a successful baseline that repeated
                \* the successful baseline before it, on the same input and day

vars == <<config, cache, proc, result, clock, baselined, today, call, ret, rerun>>

----------------------------------------------------------------------------
(* Bounds of the model *)

\* number of record identifiers an input file may hold
MaxRecords == 1
\* number of processing runs in one behaviour
MaxRuns == 2
\* last day of the calendar
MaxDay == 30
\* largest count and largest target handed to the Major Incidents calculator,
\* and largest number of records handed to the baseline counter
MaxCount == 3
\* largest number of tickets handed to the Backlog and First Time Fix calculators
MaxTotal == 50
\* largest number of tickets in the counts behind a scorecard call
MaxScored == 15

----------------------------------------------------------------------------
(* Python helpers *)

EmptyDict == [k \in {} |-> 0]

\* dict.get(key, default)
Get(d, key, default) == IF key \in DOMAIN d THEN d[key] ELSE default

\* {**d, key: value}
Put(d, key, value) == [k \in DOMAIN d \cup {key} |-> IF k = key THEN value ELSE d[k]]

Digit == <<"0", "1", "2", "3", "4", "5", "6", "7", "8", "9">>

RECURSIVE IntStr(_)
\* str(n) of a non-negative int
IntStr(n) == IF n < 10 THEN Digit[n + 1] ELSE IntStr(n \div 10) \o Digit[(n % 10) + 1]

\* str(x) of a float holding the whole number n
FloatStr(n) == IntStr(n) \o ".0"

\* the text of a date cell as it stands in the CSV file
DateStr(d) == "day" \o IntStr(d)

RECURSIVE Concat(_)
\* ''.join(chars)
Concat(chars) == IF chars = <<>> THEN "" ELSE Head(chars) \o Concat(Tail(chars))

RECURSIVE Join(_)
\* '|'.join(parts)
Join(parts) ==
    IF parts = <<>> THEN ""
    ELSE IF Len(parts) = 1 THEN parts[1]
    ELSE parts[1] \o "|" \o Join(Tail(parts))

\* [x for x in seq if x in S]
RECURSIVE Filter(_, _)
Filter(seq, S) ==
    IF seq = <<>> THEN <<>>
    ELSE IF Head(seq) \in S THEN <<Head(seq)>> \o Filter(Tail(seq), S)
    ELSE Filter(Tail(seq), S)

Range(seq) == {seq[i] : i \in 1..Len(seq)}

\* mutant of PctTenths: an empty denominator counts as 100 percent
PctTenths_FullWhenEmpty(num, den) ==
    IF den > 0
    THEN LET q == (num * 1000) \div den
             r == (num * 1000) % den
         IN  IF 2 * r < den THEN q
             ELSE IF 2 * r > den THEN q + 1
             ELSE IF q % 2 = 0 THEN q ELSE q + 1
    ELSE 1000

\* round(num / den * 100, 1) in tenths, 0 when den = 0: the nearest tenth,
\* a tie going to the even one as round() does
PctTenths(num, den) ==
    IF den > 0
    THEN LET q == (num * 1000) \div den
             r == (num * 1000) % den
         IN  IF 2 * r < den THEN q
             ELSE IF 2 * r > den THEN q + 1
             ELSE IF q % 2 = 0 THEN q ELSE q + 1
    ELSE 0

----------------------------------------------------------------------------
(* Configuration (sections read by __init__) *)

KpiIds == {"SM001", "SM002", "SM003", "SM004"}

\* the configurations: "standard" configures SM001, SM002 and SM004;
\* "extended" also lists SM003, disabled, names a calculation method for
\* SM002 that the dispatch does not know and leaves SM004's ftf_rate_min
\* null; "optional" is "standard" with SM003 enabled, requiring a field no
\* input file has, with data_requirements.fallback_behavior = disable
ConfigVariants == {"standard", "extended", "optional"}

Sm001Config ==
    [enabled |-> TRUE,
     name |-> "Major Incidents",
     calculation |-> [method |-> "priority_count"],
     required_fields |-> <<"priority">>,
     targets |-> [p1_max |-> 0, p2_max |-> 5, total_major_max |-> 5],
     business_impact |-> "High",
     escalation_required |-> TRUE]

Sm002Config(variant) ==
    [enabled |-> TRUE,
     name |-> "ServiceNow Backlog",
     calculation |-> [method |-> IF variant = "extended"
                                 THEN "backlog_v2" ELSE "servicenow_backlog"],
     required_fields |-> <<"opened_at", "resolved_at">>,
     targets |-> [backlog_max |-> 0, adherence_min |-> 90, aging_threshold_days |-> 10],
     business_impact |-> "High"]

Sm004Config(variant) ==
    [enabled |-> TRUE,
     name |-> "First Time Fix",
     calculation |-> [method |-> "zero_reassignments"],
     required_fields |-> <<"reassignment_count">>,
     targets |-> IF variant = "extended" THEN EmptyDict ELSE [ftf_rate_min |-> 80],
     targets_null |-> IF variant = "extended" THEN {"ftf_rate_min"} ELSE {},
     business_impact |-> "High"]

Sm003Config(variant) ==
    [enabled |-> (variant = "optional"),
     name |-> "Service Request Aging",
     calculation |-> [method |-> "request_aging"],
     required_fields |-> IF variant = "optional" THEN <<"request_type">> ELSE <<>>,
     targets |-> [aged_max |-> 0, adherence_min |-> 90],
     business_impact |-> "Medium",
     data_requirements |-> [fallback_behavior |-> "disable"]]

MakeConfig(variant) ==
    [metadata |-> [version |-> "1.0", organization |-> "org"],
     kpis |-> [k \in IF variant = "standard" THEN KpiIds \ {"SM003"} ELSE KpiIds |->
                  IF k = "SM001" THEN Sm001Config
                  ELSE IF k = "SM002" THEN Sm002Config(variant)
                  ELSE IF k = "SM003" THEN Sm003Config(variant)
                  ELSE Sm004Config(variant)],
     thresholds |-> [priority |-> [major_incident_levels |-> <<1, 2>>,
                                   unknown_fallback |-> 99],
                     aging |-> [backlog_days |-> 10]],
     processing |-> [numeric_handling |-> [reassignment_null_value |-> 0]]]

Configs == {MakeConfig(v) : v \in ConfigVariants}

\* self.kpis_config
kpis_config == config.kpis

\* kpi_config.get('enabled', True)
Enabled(kpi_id) == Get(kpis_config[kpi_id], "enabled", TRUE)

\* self.processing_rules.get('signature_fields', [...default...])
signature_config ==
    Get(config.processing, "signature_fields",
        <<"number", "priority", "state", "reassignment_count", "resolved_at">>)

----------------------------------------------------------------------------
(* Input record sets *)

AllColumns == {"number", "priority", "state", "reassignment_count", "opened_at", "resolved_at"}

\* the column sets of the input files
ColumnSets == {AllColumns, AllColumns \ {"reassignment_count", "resolved_at"}}

\* record identifiers (the number column)
IdOf(i) == "INC00" \o IntStr(i)

Ids == {IdOf(i) : i \in 1..MaxRecords}

\* rows an input file may hold for an identifier: an open priority 1
\* incident, opened 11 days before the last day, never reassigned, the same
\* reassigned once, and a closed priority 3
\* incident whose reassignment_count cell is empty; the priority cells are
\* texts ("P1"), so that read_csv gives the column the object dtype
RowValues ==
    {[priority |-> <<"P", "1">>, state |-> "Open", reassignment_count |-> rc,
      opened_at |-> <<MaxDay - 11>>, resolved_at |-> <<>>] : rc \in {<<0>>, <<1>>}}
    \cup
    {[priority |-> <<"P", "3">>, state |-> "Closed", reassignment_count |-> <<>>,
      opened_at |-> <<MaxDay - 5>>, resolved_at |-> <<MaxDay - 2>>]}

\* the input files: a column set and one row per identifier present
Inputs ==
    {[columns |-> c,
      rows |-> [id \in DOMAIN r |->
                   [r[id] EXCEPT
                      !.reassignment_count =
                          IF "reassignment_count" \in c THEN @ ELSE <<>>,
                      !.resolved_at = IF "resolved_at" \in c THEN @ ELSE <<>>]]] :
        c \in ColumnSets,
        r \in UNION {[{IdOf(i) : i \in 1..n} -> RowValues] : n \in 0..MaxRecords}}

\* dtype pandas gives the reassignment_count column: float64 when a cell is
\* empty, int64 otherwise
RcDtype(rows) ==
    IF \E id \in DOMAIN rows : rows[id].reassignment_count = <<>>
    THEN "float64" ELSE "int64"

\* pd.read_csv followed by _apply_column_mapping (the files use canonical names)
ReadCsv(input) ==
    [columns |-> input.columns,
     rows |-> input.rows,
     rc_dtype |-> RcDtype(input.rows),
     opened_dtype |-> "object"]

\* mutant of NumRows: the length is added to the total the cache holds
NumRows_Accumulating(df) ==
    Cardinality(DOMAIN df.rows)
    + (IF cache.baseline_counts.exists /\ "total_tickets" \in DOMAIN cache.baseline_counts.data
       THEN cache.baseline_counts.data.total_tickets ELSE 0)

\* len(df)
NumRows(df) == Cardinality(DOMAIN df.rows)

----------------------------------------------------------------------------
(* Value normalizers and metric counter *)

Digits == {"0", "1", "2", "3", "4", "5", "6", "7", "8", "9"}

DigitValue(c) == CHOOSE n \in 0..9 : Digit[n + 1] = c

RECURSIVE TakeDigits(_, _)
\* value of the run of digits at the head of chars, continuing from acc
TakeDigits(chars, acc) ==
    IF chars = <<>> \/ Head(chars) \notin Digits THEN acc
    ELSE TakeDigits(Tail(chars), 10 * acc + DigitValue(Head(chars)))

RECURSIVE ExtractPriority(_, _)
\* df['priority'].str.extract('(\d+)')[0].astype(float).fillna(unknown_fallback)
\* for one cell: the first run of digits of the text, or the fallback
ExtractPriority(chars, unknown_fallback) ==
    IF chars = <<>> THEN unknown_fallback
    ELSE IF Head(chars) \in Digits THEN TakeDigits(chars, 0)
    ELSE ExtractPriority(Tail(chars), unknown_fallback)

\* (current_date - df['opened_at']).dt.days for one row; <<>> when opened_at is NaT
AgeDays(row) == IF row.opened_at = <<>> THEN <<>> ELSE <<today - row.opened_at[1]>>

\* the rows of the frame, as a set of identifiers
Index(df) == DOMAIN df.rows

\* counts[f'priority_{level}_tickets'] for level in major_levels
PriorityCounts(df) ==
    LET priority_config == Get(config.thresholds, "priority", EmptyDict)
        major_levels == Get(priority_config, "major_incident_levels", <<1, 2>>)
        unknown_fallback == Get(priority_config, "unknown_fallback", 99)
        name(level) == "priority_" \o IntStr(level) \o "_tickets"
    IN  [k \in {name(l) : l \in Range(major_levels)} |->
            LET level == CHOOSE l \in Range(major_levels) : name(l) = k
            IN  Cardinality({id \in Index(df) :
                    ExtractPriority(df.rows[id].priority, unknown_fallback) = level})]

\* df['reassignment_count'].fillna(null_value) for one cell
FillNa(cell, null_value) == IF cell = <<>> THEN <<null_value>> ELSE cell

reassignment_null_value ==
    Get(Get(config.processing, "numeric_handling", EmptyDict), "reassignment_null_value", 0)

\* int((df['reassignment_count'].fillna(null_value) == 0).sum())
ZeroReassignments(df) ==
    Cardinality({id \in Index(df) :
        FillNa(df.rows[id].reassignment_count, reassignment_null_value) = <<0>>})

backlog_days == Get(Get(config.thresholds, "aging", EmptyDict), "backlog_days", 10)

\* mutant of BacklogMask: a record without a resolution date is never backlog
BacklogMask_ResolvedOnly(row) ==
    row.resolved_at # <<>> /\ AgeDays(row) # <<>> /\ AgeDays(row)[1] > backlog_days

\* the ServiceNow backlog mask: both branches test age_days > backlog_days
BacklogMask(row) ==
    LET is_resolved == row.resolved_at # <<>>
        old == AgeDays(row) # <<>> /\ AgeDays(row)[1] > backlog_days
    IN  (is_resolved /\ old) \/ (~is_resolved /\ old)

\* the frame after _calculate_configurable_baseline_counts has run on it:
\* reassignment_count has been overwritten by its fillna (dtype kept) and
\* opened_at by its pd.to_datetime
FilledFrame(df) ==
    [df EXCEPT
        !.rows = IF "reassignment_count" \in df.columns
                 THEN [id \in DOMAIN df.rows |->
                        [df.rows[id] EXCEPT !.reassignment_count =
                            FillNa(df.rows[id].reassignment_count, reassignment_null_value)]]
                 ELSE df.rows,
        !.opened_dtype = IF "opened_at" \in df.columns THEN "datetime64" ELSE df.opened_dtype]

\* _calculate_configurable_baseline_counts (the returned counts)
_calculate_configurable_baseline_counts(df) ==
    LET aging_config == Get(config.thresholds, "aging", EmptyDict)
        aging_name(t) == IF t = "backlog_days" THEN "incidents_backlog" ELSE "incidents_" \o t
        Older(days) == {id \in Index(df) :
            AgeDays(df.rows[id]) # <<>> /\ AgeDays(df.rows[id])[1] > days}
    IN  ("total_tickets" :> NumRows(df))
        @@ (IF "priority" \in df.columns THEN PriorityCounts(df) ELSE EmptyDict)
        @@ (IF "reassignment_count" \in df.columns
            THEN "zero_reassignments" :> ZeroReassignments(df) ELSE EmptyDict)
        @@ (IF "resolved_at" \in df.columns
            THEN "resolved_tickets" :>
                    Cardinality({id \in Index(df) : df.rows[id].resolved_at # <<>>})
            ELSE EmptyDict)
        @@ (IF "opened_at" \in df.columns
            THEN [k \in {aging_name(t) : t \in DOMAIN aging_config} |->
                    LET t == CHOOSE u \in DOMAIN aging_config : aging_name(u) = k
                    IN  Cardinality(Older(aging_config[t]))]
            ELSE EmptyDict)
        @@ (IF {"opened_at", "resolved_at"} \subseteq df.columns
            THEN "servicenow_backlog_total" :>
                    Cardinality({id \in Index(df) : BacklogMask(df.rows[id])})
            ELSE EmptyDict)
        @@ ("geographic_data_available" :> (IF "country" \in df.columns THEN 1 ELSE 0))

\* _calculate_targeted_kpi_counts (the definition in force, the later one)
_calculate_targeted_kpi_counts(df, kpi_id) ==
    LET kpi_config == Get(kpis_config, kpi_id, EmptyDict)
        calculation_method == Get(Get(kpi_config, "calculation", EmptyDict), "method", "")
    IN  ("total_tickets" :> NumRows(df))
        @@ (IF calculation_method = "priority_count" /\ "priority" \in df.columns
            THEN PriorityCounts(df)
            ELSE IF calculation_method = "zero_reassignments"
                    /\ "reassignment_count" \in df.columns
            THEN "zero_reassignments" :> ZeroReassignments(df)
            ELSE IF calculation_method = "servicenow_backlog"
                    /\ {"opened_at", "resolved_at"} \subseteq df.columns
            THEN "servicenow_backlog_total" :>
                    Cardinality({id \in Index(df) : BacklogMask(df.rows[id])})
            ELSE EmptyDict)

----------------------------------------------------------------------------
(* KPI calculators and dispatch *)

Max(a, b) == IF a >= b THEN a ELSE b

Min(a, b) == IF a <= b THEN a ELSE b

\* Python computes count / total * 100 in binary floating point. For
\* 0 <= count <= total <= 101 the float differs from the exact quotient in
\* the last place at most, which decides a comparison with a whole number
\* only when the exact quotient is that whole number and the float lies
\* below it. The pairs <<count, total>> for which it does:
PctBelow ==
    {<<29, 50>>, <<29, 100>>, <<57, 100>>, <<58, 100>>}

\* the same for max(0, 100 - count / total * 100)
AdherenceBelow ==
    {<<11, 20>>, <<14, 25>>, <<22, 40>>, <<28, 50>>, <<33, 60>>, <<42, 75>>,
     <<44, 80>>, <<55, 100>>, <<56, 100>>}

\* count / total * 100 >= k as the floats compare (total > 0, k whole)
PctAtLeast(count, total, k) ==
    IF 100 * count = k * total
    THEN <<count, total>> \notin PctBelow
    ELSE 100 * count > k * total

\* max(0, 100 - count / total * 100) >= k as the floats compare (total > 0,
\* k whole)
AdherenceAtLeast(count, total, k) ==
    IF count <= total /\ 100 * (total - count) = k * total
    THEN <<count, total>> \notin AdherenceBelow
    ELSE Max(0, 100 * (total - count)) >= k * total

\* targets.get(name) is None
IsNone(kpi_config, name) == name \in Get(kpi_config, "targets_null", {})

\* the TypeError an ordering comparison with None raises
TypeError == [raised |-> "TypeError"]

\* mutant of _calculate_sm001_major_incidents: P1 counts as exceeded when it
\* reaches p1_max
_calculate_sm001_major_incidents_AtLeast(counts, targets, kpi_config, now) ==
    LET p1_count == Get(counts, "priority_1_tickets", 0)
        p2_count == Get(counts, "priority_2_tickets", 0)
        total_major == p1_count + p2_count
        p1_max == Get(targets, "p1_max", 0)
        p2_max == Get(targets, "p2_max", 5)
        total_major_max == Get(targets, "total_major_max", p2_max)
        p1_exceeded == p1_count >= p1_max
        p2_exceeded == p2_count > p2_max
        total_exceeded == total_major > total_major_max
        total_incidents == Get(counts, "total_tickets", 0)
    IN  IF \E t \in {"p1_max", "p2_max", "total_major_max"} : IsNone(kpi_config, t)
        THEN TypeError
        ELSE
        [name |-> Get(kpi_config, "name", "Major Incidents"),
         p1_count |-> p1_count,
         p2_count |-> p2_count,
         total_major |-> total_major,
         p1_percentage |-> PctTenths(p1_count, total_incidents),
         p2_percentage |-> PctTenths(p2_count, total_incidents),
         targets |-> [p1_max |-> p1_max, p2_max |-> p2_max,
                      total_major_max |-> total_major_max],
         status |-> IF p1_exceeded THEN "Critical"
                    ELSE IF p2_exceeded \/ total_exceeded THEN "Above Target"
                    ELSE "Target Met",
         business_impact |-> Get(kpi_config, "business_impact", "High"),
         escalation_required |-> p1_exceeded /\ Get(kpi_config, "escalation_required", FALSE),
         calculation_timestamp |-> now]

_calculate_sm001_major_incidents(counts, targets, kpi_config, now) ==
    LET p1_count == Get(counts, "priority_1_tickets", 0)
        p2_count == Get(counts, "priority_2_tickets", 0)
        total_major == p1_count + p2_count
        p1_max == Get(targets, "p1_max", 0)
        p2_max == Get(targets, "p2_max", 5)
        total_major_max == Get(targets, "total_major_max", p2_max)
        p1_exceeded == p1_count > p1_max
        p2_exceeded == p2_count > p2_max
        total_exceeded == total_major > total_major_max
        total_incidents == Get(counts, "total_tickets", 0)
    IN  IF \E t \in {"p1_max", "p2_max", "total_major_max"} : IsNone(kpi_config, t)
        THEN TypeError
        ELSE
        [name |-> Get(kpi_config, "name", "Major Incidents"),
         p1_count |-> p1_count,
         p2_count |-> p2_count,
         total_major |-> total_major,
         p1_percentage |-> PctTenths(p1_count, total_incidents),
         p2_percentage |-> PctTenths(p2_count, total_incidents),
         targets |-> [p1_max |-> p1_max, p2_max |-> p2_max,
                      total_major_max |-> total_major_max],
         status |-> IF p1_exceeded THEN "Critical"
                    ELSE IF p2_exceeded \/ total_exceeded THEN "Above Target"
                    ELSE "Target Met",
         business_impact |-> Get(kpi_config, "business_impact", "High"),
         escalation_required |-> p1_exceeded /\ Get(kpi_config, "escalation_required", FALSE),
         calculation_timestamp |-> now]

_calculate_sm002_backlog(counts, targets, kpi_config, now) ==
    LET backlog_count == Get(counts, "servicenow_backlog_total", 0)
        total_incidents == Get(counts, "total_tickets", 0)
        backlog_max == Get(targets, "backlog_max", 0)
        adherence_min == Get(targets, "adherence_min", 90)
        aging_threshold == Get(targets, "aging_threshold_days", 10)
        \* adherence_rate >= k, adherence_rate being 100 when there is no incident
        adherence_at_least(k) ==
            IF total_incidents > 0
            THEN AdherenceAtLeast(backlog_count, total_incidents, k)
            ELSE 100 >= k
    IN  IF \/ IsNone(kpi_config, "backlog_max")
           \/ (backlog_count <= backlog_max /\ IsNone(kpi_config, "adherence_min"))
        THEN TypeError
        ELSE
        [name |-> Get(kpi_config, "name", "ServiceNow Backlog"),
         backlog_count |-> backlog_count,
         total_incidents |-> total_incidents,
         backlog_percentage |-> PctTenths(backlog_count, total_incidents),
         adherence_rate |-> Max(0, 1000 - PctTenths(backlog_count, total_incidents)),
         aging_threshold_days |-> aging_threshold,
         targets |-> [backlog_max |-> backlog_max, adherence_min |-> adherence_min],
         status |-> IF backlog_count <= backlog_max /\ adherence_at_least(adherence_min)
                    THEN "Target Met"
                    ELSE IF ~adherence_at_least(50) THEN "Critical"
                    ELSE "Needs Improvement",
         business_impact |-> Get(kpi_config, "business_impact", "High"),
         calculation_timestamp |-> now]

_calculate_sm004_first_time_fix(counts, targets, kpi_config, now) ==
    LET ftf_count == Get(counts, "zero_reassignments", 0)
        total_contacts == Get(counts, "total_tickets", 0)
        ftf_rate_min == Get(targets, "ftf_rate_min", 80)
        \* ftf_rate >= k, ftf_rate being 0 when there is no contact
        ftf_rate_at_least(k) ==
            IF total_contacts > 0
            THEN PctAtLeast(ftf_count, total_contacts, k)
            ELSE 0 >= k
        target_count == IF total_contacts > 0
                        THEN (total_contacts * ftf_rate_min) \div 100 ELSE 0
    IN  IF IsNone(kpi_config, "ftf_rate_min")
        THEN TypeError
        ELSE
        [name |-> Get(kpi_config, "name", "First Time Fix"),
         ftf_count |-> ftf_count,
         total_contacts |-> total_contacts,
         ftf_rate |-> PctTenths(ftf_count, total_contacts),
         gap_incidents |-> Max(0, target_count - ftf_count),
         targets |-> [ftf_rate_min |-> ftf_rate_min],
         status |-> IF ftf_rate_at_least(ftf_rate_min) THEN "Target Met"
                    ELSE IF ~ftf_rate_at_least(60) THEN "Critical"
                    ELSE "Below Target",
         business_impact |-> Get(kpi_config, "business_impact", "High"),
         calculation_timestamp |-> now]

\* mutant of _calculate_sm003_request_aging: without the disable fallback the
\* requests are measured and the KPI gets a performance status
_calculate_sm003_request_aging_Measured(counts, targets, kpi_config, now) ==
    LET data_requirements == Get(kpi_config, "data_requirements", EmptyDict)
        fallback_behavior == Get(data_requirements, "fallback_behavior", "disable")
    IN  IF fallback_behavior = "disable"
        THEN [name |-> Get(kpi_config, "name", "Service Request Aging"),
              status |-> "Disabled",
              calculation_timestamp |-> now]
        ELSE [name |-> Get(kpi_config, "name", "Service Request Aging"),
              adherence_rate |-> 1000,
              status |-> "Target Met",
              calculation_timestamp |-> now]

\* _calculate_sm003_request_aging
_calculate_sm003_request_aging(counts, targets, kpi_config, now) ==
    LET data_requirements == Get(kpi_config, "data_requirements", EmptyDict)
        fallback_behavior == Get(data_requirements, "fallback_behavior", "disable")
        aged_max == Get(targets, "aged_max", 0)
        adherence_min == Get(targets, "adherence_min", 90)
    IN  IF fallback_behavior = "disable"
        THEN [name |-> Get(kpi_config, "name", "Service Request Aging"),
              status |-> "Disabled",
              reason |-> "No service request data available",
              data_source |-> "incident_table_only",
              recommendation |-> "Enable when service catalog data becomes available",
              calculation_timestamp |-> now]
        ELSE [name |-> Get(kpi_config, "name", "Service Request Aging"),
              aged_count |-> 0,
              total_requests |-> 0,
              aging_percentage |-> 0,
              adherence_rate |-> 1000,
              targets |-> [aged_max |-> aged_max, adherence_min |-> adherence_min],
              status |-> "No Data",
              business_impact |-> Get(kpi_config, "business_impact", "Medium"),
              calculation_timestamp |-> now]

\* _calculate_geographic_analysis over a frame without a country column (no
\* input file of the model has one)
_calculate_geographic_analysis(kpi_config, now) ==
    [name |-> Get(kpi_config, "name", "Geographic Analysis"),
     status |-> "No Data",
     reason |-> "Country field not available",
     calculation_timestamp |-> now]

\* the try block of _calculate_single_configurable_kpi: the calculator the
\* (kpi_id, calculation_method) pair selects, {} for an unknown pair
Dispatch(kpi_id, kpi_config, counts, now) ==
    LET calculation_method == Get(Get(kpi_config, "calculation", EmptyDict), "method", "")
        targets == Get(kpi_config, "targets", EmptyDict)
    IN  IF kpi_id = "SM001" /\ calculation_method = "priority_count"
        THEN _calculate_sm001_major_incidents(counts, targets, kpi_config, now)
        ELSE IF kpi_id = "SM002" /\ calculation_method = "servicenow_backlog"
        THEN _calculate_sm002_backlog(counts, targets, kpi_config, now)
        ELSE IF kpi_id = "SM003" /\ calculation_method = "request_aging"
        THEN _calculate_sm003_request_aging(counts, targets, kpi_config, now)
        ELSE IF kpi_id = "SM004" /\ calculation_method = "zero_reassignments"
        THEN _calculate_sm004_first_time_fix(counts, targets, kpi_config, now)
        ELSE IF kpi_id = "GEOGRAPHIC" /\ calculation_method = "country_distribution"
        THEN _calculate_geographic_analysis(kpi_config, now)
        ELSE EmptyDict

\* mutant of _calculate_single_configurable_kpi: what the calculator raised
\* is handed on to the caller
_calculate_single_configurable_kpi_Propagating(kpi_id, counts, now) ==
    LET kpi_config == Get(kpis_config, kpi_id, EmptyDict)
    IN  IF kpi_config = EmptyDict THEN EmptyDict
        ELSE Dispatch(kpi_id, kpi_config, counts, now)

\* _calculate_single_configurable_kpi: {} for a KPI that is not configured,
\* and {} when the calculator raised (except Exception: return {})
_calculate_single_configurable_kpi(kpi_id, counts, now) ==
    LET kpi_config == Get(kpis_config, kpi_id, EmptyDict)
        returned == Dispatch(kpi_id, kpi_config, counts, now)
    IN  IF kpi_config = EmptyDict THEN EmptyDict
        ELSE IF returned = TypeError THEN EmptyDict
        ELSE returned

\* _calculate_configurable_baseline_kpis: every enabled KPI with a non-empty result
_calculate_configurable_baseline_kpis(counts, now) ==
    LET kpi_result == [k \in {j \in DOMAIN kpis_config : Enabled(j)} |->
                            _calculate_single_configurable_kpi(k, counts, now)]
    IN  [k \in {j \in DOMAIN kpi_result : kpi_result[j] # EmptyDict} |-> kpi_result[k]]

----------------------------------------------------------------------------
(* Scorecard aggregator *)

\* n / d rounded to the nearest integer, a tie going to the even one
RoundDiv(n, d) ==
    LET q == n \div d
        r == n % d
    IN  IF 2 * r < d THEN q
        ELSE IF 2 * r > d THEN q + 1
        ELSE IF q % 2 = 0 THEN q ELSE q + 1

RECURSIVE SumOver(_, _)
\* sum(f[k] for k in S)
SumOver(f, S) ==
    IF S = {} THEN 0
    ELSE LET k == CHOOSE x \in S : TRUE
         IN  f[k] + SumOver(f, S \ {k})

\* mutant of _get_kpi_score: SM001 is scored by the rule for unknown KPIs
_get_kpi_score_DefaultRule(kpi_id, kpi_data) ==
    LET status == Get(kpi_data, "status", "Unknown")
        clamp(x) == Min(1000, Max(0, x))
    IN  IF kpi_id = "SM002" THEN clamp(Get(kpi_data, "adherence_rate", 0))
        ELSE IF kpi_id = "SM003"
        THEN (IF status \in {"Disabled", "No Data"} THEN 1000
              ELSE clamp(Get(kpi_data, "adherence_rate", 0)))
        ELSE IF kpi_id = "SM004" THEN clamp(Get(kpi_data, "ftf_rate", 0))
        ELSE IF status = "Target Met" THEN 1000
        ELSE IF status \in {"Above Target", "Below Target"} THEN 600
        ELSE 0

\* _get_kpi_score, in tenths of a point
_get_kpi_score(kpi_id, kpi_data) ==
    LET status == Get(kpi_data, "status", "Unknown")
        clamp(x) == Min(1000, Max(0, x))
    IN  IF kpi_id = "SM001"
        THEN (IF status = "Target Met" THEN 1000
              ELSE IF status = "Above Target" THEN 500
              ELSE 0)
        ELSE IF kpi_id = "SM002" THEN clamp(Get(kpi_data, "adherence_rate", 0))
        ELSE IF kpi_id = "SM003"
        THEN (IF status \in {"Disabled", "No Data"} THEN 1000
              ELSE clamp(Get(kpi_data, "adherence_rate", 0)))
        ELSE IF kpi_id = "SM004" THEN clamp(Get(kpi_data, "ftf_rate", 0))
        ELSE IF status = "Target Met" THEN 1000
        ELSE IF status \in {"Above Target", "Below Target"} THEN 600
        ELSE 0

\* self.status_rules
status_rules == Get(config, "global_status_rules", EmptyDict)

\* _calculate_scorecard_score. Weights are percentages (the source divides
\* them by 100), scores are tenths of a point, weighted scores and the total
\* are thousandths of a point; overall_score is round(total_score, 1) in tenths
\* (a total that lies exactly between two tenths, where the float of the
\* source decides, goes to the even one)
_calculate_scorecard_score(kpis, now) ==
    LET scoring_rules == Get(status_rules, "scorecard_scoring", EmptyDict)
        sm003_enabled ==
            /\ "SM003" \in DOMAIN kpis
            /\ Get(kpis["SM003"], "status", "None") \notin {"Disabled", "No Data"}
        disabled_weights == Get(scoring_rules, "sm003_disabled_weights", EmptyDict)
        weights ==
            IF sm003_enabled
            THEN [SM001 |-> Get(scoring_rules, "weight_sm001", 25),
                  SM002 |-> Get(scoring_rules, "weight_sm002", 40),
                  SM003 |-> Get(scoring_rules, "weight_sm003", 25),
                  SM004 |-> Get(scoring_rules, "weight_sm004", 10)]
            ELSE [SM001 |-> Get(disabled_weights, "weight_sm001", 25),
                  SM002 |-> Get(disabled_weights, "weight_sm002", 50),
                  SM004 |-> Get(disabled_weights, "weight_sm004", 25)]
        kpi_scores ==
            [kpi_id \in DOMAIN weights \cap DOMAIN kpis |->
                [score |-> _get_kpi_score(kpi_id, kpis[kpi_id]),
                 weight |-> weights[kpi_id],
                 weighted_score |-> _get_kpi_score(kpi_id, kpis[kpi_id]) * weights[kpi_id],
                 status |-> Get(kpis[kpi_id], "status", "Unknown")]]
        total_score == SumOver([k \in DOMAIN kpi_scores |-> kpi_scores[k].weighted_score],
                               DOMAIN kpi_scores)
        performance_bands == Get(status_rules, "performance_bands", EmptyDict)
    IN  [overall_score |-> RoundDiv(total_score, 100),
         performance_band |->
            IF total_score >= 1000 * Get(performance_bands, "excellent", 90) THEN "Excellent"
            ELSE IF total_score >= 1000 * Get(performance_bands, "good", 80) THEN "Good"
            ELSE IF total_score >= 1000 * Get(performance_bands, "needs_improvement", 60)
            THEN "Needs Improvement"
            ELSE "Poor",
         kpi_scores |-> kpi_scores,
         weights_used |-> weights,
         sm003_enabled |-> sm003_enabled,
         calculation_timestamp |-> now]

----------------------------------------------------------------------------
(* Signature-based change detector *)

\* str(row.get(field, '')) for one cell of the frame
CellStr(df, id, field) ==
    LET row == df.rows[id]
    IN  IF field = "number" THEN id
        ELSE IF field = "priority"
        THEN (IF row.priority = <<>> THEN "nan" ELSE Concat(row.priority))
        ELSE IF field = "state" THEN row.state
        ELSE IF field = "reassignment_count"
        THEN (IF row.reassignment_count = <<>> THEN "nan"
              ELSE IF df.rc_dtype = "float64" THEN FloatStr(row.reassignment_count[1])
              ELSE IntStr(row.reassignment_count[1]))
        ELSE IF field = "resolved_at"
        THEN (IF row.resolved_at = <<>> THEN "nan" ELSE DateStr(row.resolved_at[1]))
        ELSE IF field = "opened_at"
        THEN (IF row.opened_at = <<>> THEN (IF df.opened_dtype = "object" THEN "nan" ELSE "NaT")
              ELSE IF df.opened_dtype = "object" THEN DateStr(row.opened_at[1])
              ELSE DateStr(row.opened_at[1]) \o " 00:00:00")
        ELSE ""

\* mutant of _generate_configurable_signatures: the records are fingerprinted
\* whether or not a signature field is present
_generate_configurable_signatures_Unguarded(df, signature_fields) ==
    LET available_fields == Filter(signature_fields, df.columns)
    IN  [id \in Index(df) |->
            Join([i \in 1..Len(available_fields) |-> CellStr(df, id, available_fields[i])])]

\* _generate_configurable_signatures: record id -> hashed text
_generate_configurable_signatures(df, signature_fields) ==
    LET available_fields == Filter(signature_fields, df.columns)
    IN  IF available_fields # <<>>
        THEN [id \in Index(df) |->
                Join([i \in 1..Len(available_fields) |-> CellStr(df, id, available_fields[i])])]
        ELSE EmptyDict

\* _load_record_signatures raises: the file exists and pickle.load fails on it
SignaturesUnreadable ==
    cache.record_signatures.exists /\ ~cache.record_signatures.readable

\* _load_record_signatures: {} when the blob is absent
_load_record_signatures == IF cache.record_signatures.exists
                           THEN cache.record_signatures.data ELSE EmptyDict

\* _determine_affected_kpis_configurable
_determine_affected_kpis_configurable(df, changed_record_ids) ==
    LET changed_records_empty ==
            IF "number" \in df.columns
            THEN Index(df) \cap changed_record_ids = {}
            ELSE changed_record_ids = {} \/ Index(df) = {}
    IN  IF changed_records_empty THEN {}
        ELSE {kpi_id \in DOMAIN kpis_config :
                /\ Enabled(kpi_id)
                /\ \E field \in Range(Get(kpis_config[kpi_id], "required_fields", <<>>)) :
                        field \in df.columns}

\* mutant of _detect_configurable_changes: the stored fingerprints are not
\* consulted, so every record of the input counts as new
_detect_configurable_changes_AllNew(df_new) ==
    LET current_signatures == _generate_configurable_signatures(df_new, signature_config)
        new_records == DOMAIN current_signatures
    IN  IF new_records = {}
        THEN [has_changes |-> FALSE, new_records |-> 0, changed_records |-> 0,
              total_changes |-> 0, affected_kpis |-> {}]
        ELSE [has_changes |-> TRUE,
              new_records |-> Cardinality(new_records),
              changed_records |-> 0,
              total_changes |-> Cardinality(new_records),
              affected_kpis |-> _determine_affected_kpis_configurable(df_new, new_records)]

\* _detect_configurable_changes
_detect_configurable_changes(df_new) ==
    LET previous_signatures == _load_record_signatures
        current_signatures == _generate_configurable_signatures(df_new, signature_config)
        new_records == DOMAIN current_signatures \ DOMAIN previous_signatures
        changed_records == {record_id \in DOMAIN current_signatures :
                                /\ record_id \in DOMAIN previous_signatures
                                /\ current_signatures[record_id] # previous_signatures[record_id]}
        all_changes == new_records \cup changed_records
    IN  IF all_changes = {}
        THEN [has_changes |-> FALSE, new_records |-> 0, changed_records |-> 0,
              total_changes |-> 0, affected_kpis |-> {}]
        ELSE [has_changes |-> TRUE,
              new_records |-> Cardinality(new_records),
              changed_records |-> Cardinality(changed_records),
              total_changes |-> Cardinality(all_changes),
              affected_kpis |-> _determine_affected_kpis_configurable(df_new, all_changes)]

\* _update_affected_counts (the definition in force, the later one): the
\* instance's baseline counts with total_tickets raised by the new records
_update_affected_counts(changes) ==
    IF changes.has_changes /\ changes.new_records > 0
    THEN Put(proc.baseline_counts, "total_tickets",
             Get(proc.baseline_counts, "total_tickets", 0) + changes.new_records)
    ELSE proc.baseline_counts

\* _update_affected_kpis (the definition in force, the later one)
_update_affected_kpis(changes, updated_counts, now) ==
    LET updated_kpi == [k \in changes.affected_kpis |->
                            _calculate_single_configurable_kpi(k, updated_counts, now)]
        recomputed == {k \in changes.affected_kpis : updated_kpi[k] # EmptyDict}
    IN  [k \in DOMAIN proc.kpi_cache \cup recomputed |->
            IF k \in recomputed THEN updated_kpi[k] ELSE proc.kpi_cache[k]]

----------------------------------------------------------------------------
(* Cache store *)

\* a blob of the cache directory: whether the file exists, whether its
\* content can be read back, and the data it holds
Absent == [exists |-> FALSE, readable |-> TRUE, data |-> EmptyDict]

\* a blob after _save_*: the file holds data
Saved(data) == [exists |-> TRUE, readable |-> TRUE, data |-> data]

\* a blob whose file has been damaged: pickle.load raises on it
Damaged == [exists |-> TRUE, readable |-> FALSE, data |-> EmptyDict]

\* _load_baseline_counts, _load_kpi_cache, _load_last_processed: the blob,
\* or {} when the file does not exist
Load(blob) == IF blob.exists THEN blob.data ELSE EmptyDict

\* the metadata _save_last_processed writes
LastProcessed(timestamp, record_count) ==
    [timestamp |-> timestamp,
     record_count |-> record_count,
     config_version |-> Get(config.metadata, "version", "unknown"),
     organization |-> Get(config.metadata, "organization", "unknown"),
     processing_mode |-> "configurable"]

----------------------------------------------------------------------------
(* Outcome of a run *)

NoInput == [columns |-> {}, rows |-> EmptyDict]

NoResult ==
    [mode |-> "none", status |-> "none", error |-> "", missing_fields |-> {},
     input |-> NoInput, target_kpi |-> "", records_processed |-> 0,
     changes_detected |-> FALSE, affected_kpis |-> {}, updated_kpis |-> EmptyDict,
     baseline_counts |-> EmptyDict, baseline_kpis |-> EmptyDict,
     overall_score |-> EmptyDict,
     \* the day of the envelope's timestamp
     day |-> 0]

\* a raised exception; input is NoInput when the run failed before it read
\* the input file
Raised(mode, input, error, missing) ==
    [NoResult EXCEPT !.mode = mode, !.status = "error", !.error = error,
                     !.input = input, !.missing_fields = missing]

----------------------------------------------------------------------------
(* The processor *)

\* no call of a single function is being followed
NoCall == [fn |-> "none"]

NoReturn == [returned |-> FALSE]

\* the value a call returned
Returned(value) == [returned |-> TRUE, value |-> value]

\* the state after construction over an empty cache directory
Start ==
    /\ config \in Configs
    /\ cache = [baseline_counts |-> Absent, kpi_cache |-> Absent,
                last_processed |-> Absent, record_signatures |-> Absent]
    /\ proc = [baseline_counts |-> EmptyDict, kpi_cache |-> EmptyDict,
               last_processed |-> EmptyDict]
    /\ result = NoResult
    /\ clock = 0
    /\ baselined = FALSE
    /\ call = NoCall
    /\ ret = NoReturn
    /\ rerun = FALSE

\* every run takes place on the last day
Init == Start /\ today = MaxDay

\* CompleteConfigurableProcessor.__init__ over the cache directory: a new
\* instance loads the three JSON blobs
Construct ==
    /\ proc' = [baseline_counts |-> Load(cache.baseline_counts),
                kpi_cache |-> Load(cache.kpi_cache),
                last_processed |-> Load(cache.last_processed)]
    /\ baselined' = FALSE
    /\ UNCHANGED <<config, cache, result, clock, today, call, ret, rerun>>

\* _validate_data_compatibility: the required columns that are missing
MissingColumns(df) ==
    UNION {Range(Get(kpis_config[k], "required_fields", <<>>)) :
              k \in {j \in DOMAIN kpis_config : Enabled(j)}} \ df.columns

\* process_baseline
ProcessBaseline(input) ==
    LET now == clock + 1
        df == ReadCsv(input)
    IN  /\ clock < MaxRuns
        /\ clock' = now
        /\ UNCHANGED <<config, proc, today, call, ret>>
        /\ IF MissingColumns(df) # {}
           THEN /\ result' = Raised("baseline", input, "missing_columns", MissingColumns(df))
                /\ rerun' = FALSE
                /\ UNCHANGED <<cache, baselined>>
           ELSE \E baseline_counts \in {_calculate_configurable_baseline_counts(df)} :
                \E baseline_kpis \in
                        {_calculate_configurable_baseline_kpis(baseline_counts, now)} :
                /\ baselined' = TRUE
                /\ rerun' = (/\ result.mode = "baseline" /\ result.status = "ok"
                              /\ result.input = input /\ result.day = today)
                /\ cache' =
                    [baseline_counts |-> Saved(baseline_counts),
                     kpi_cache |-> Saved(baseline_kpis),
                     last_processed |-> Saved(LastProcessed(now, NumRows(df))),
                     record_signatures |->
                        Saved(_generate_configurable_signatures(FilledFrame(df),
                                                                signature_config))]
                /\ result' = [NoResult EXCEPT
                        !.mode = "baseline", !.status = "ok", !.input = input,
                        !.day = today,
                        !.records_processed = NumRows(df),
                        !.baseline_counts = baseline_counts,
                        !.baseline_kpis = baseline_kpis,
                        !.overall_score = _calculate_scorecard_score(baseline_kpis, now)]

\* mutant of NoBaseline: the precondition is not checked
NoBaseline_Unchecked == FALSE

\* process_incremental's precondition fails: not self.baseline_counts
NoBaseline == proc.baseline_counts = EmptyDict

\* process_incremental
ProcessIncremental(input) ==
    LET now == clock + 1
        df_new == ReadCsv(input)
    IN  /\ clock < MaxRuns
        /\ clock' = now
        /\ UNCHANGED <<config, proc, baselined, today, call, ret>>
        /\ rerun' = FALSE
        /\ IF NoBaseline
           THEN /\ result' = Raised("incremental", NoInput, "no_baseline", {})
                /\ UNCHANGED cache
           ELSE IF SignaturesUnreadable
           THEN /\ result' = Raised("incremental", input, "unpickling_error", {})
                /\ UNCHANGED cache
           ELSE \E changes \in {_detect_configurable_changes(df_new)} :
                \E updated_counts \in {_update_affected_counts(changes)} :
                \E updated_kpis \in {_update_affected_kpis(changes, updated_counts, now)} :
                IF ~changes.has_changes
           THEN /\ result' = [NoResult EXCEPT
                        !.mode = "incremental", !.status = "ok", !.input = input]
                /\ UNCHANGED cache
           ELSE /\ cache' = [cache EXCEPT
                        !.baseline_counts = Saved(updated_counts),
                        !.kpi_cache = Saved(updated_kpis),
                        !.last_processed = Saved(LastProcessed(now, NumRows(df_new)))]
                   \* the envelope indexes updated_kpis by every affected KPI
                /\ IF changes.affected_kpis \subseteq DOMAIN updated_kpis
                   THEN result' = [NoResult EXCEPT
                            !.mode = "incremental", !.status = "ok", !.input = input,
                            !.day = today,
                            !.records_processed = NumRows(df_new),
                            !.changes_detected = TRUE,
                            !.affected_kpis = changes.affected_kpis,
                            !.updated_kpis = [k \in changes.affected_kpis |-> updated_kpis[k]],
                            !.overall_score = _calculate_scorecard_score(updated_kpis, now)]
                   ELSE result' = Raised("incremental", input, "key_error", {})

\* mutant of MissingFields: the required fields are not validated
MissingFields_Unvalidated(required_fields, df) == {}

\* process_targeted: [field for field in required_fields if field not in df.columns]
MissingFields(required_fields, df) == {f \in Range(required_fields) : f \notin df.columns}

\* process_targeted
ProcessTargeted(kpi_id, input) ==
    LET now == clock + 1
        df_changes == ReadCsv(input)
        required_fields == Get(kpis_config[kpi_id], "required_fields", <<>>)
        missing_fields == MissingFields(required_fields, df_changes)
        relevant_columns == Filter(required_fields, df_changes.columns)
        df_relevant == [df_changes EXCEPT !.columns = Range(relevant_columns)]
        kpi_counts == _calculate_targeted_kpi_counts(df_relevant, kpi_id)
    IN  /\ clock < MaxRuns
        /\ clock' = now
        /\ UNCHANGED <<config, baselined, today, call, ret>>
        /\ rerun' = FALSE
        /\ IF kpi_id \notin DOMAIN kpis_config
           THEN /\ result' = [Raised("targeted", NoInput, "kpi_not_found", {})
                                EXCEPT !.target_kpi = kpi_id]
                /\ UNCHANGED <<cache, proc>>
           ELSE IF ~Enabled(kpi_id)
           THEN /\ result' = [Raised("targeted", NoInput, "kpi_disabled", {})
                                EXCEPT !.target_kpi = kpi_id]
                /\ UNCHANGED <<cache, proc>>
           ELSE IF missing_fields # {}
           THEN /\ result' = [Raised("targeted", input, "missing_fields", missing_fields)
                                EXCEPT !.target_kpi = kpi_id]
                /\ UNCHANGED <<cache, proc>>
           ELSE \E updated_kpi \in
                        {_calculate_single_configurable_kpi(kpi_id, kpi_counts, now)} :
                /\ proc' = [proc EXCEPT !.kpi_cache = Put(proc.kpi_cache, kpi_id, updated_kpi)]
                /\ cache' = [cache EXCEPT !.kpi_cache = Saved(proc'.kpi_cache)]
                /\ result' = [NoResult EXCEPT
                        !.mode = "targeted", !.status = "ok", !.input = input,
                        !.day = today,
                        !.target_kpi = kpi_id,
                        !.records_processed = NumRows(df_relevant),
                        !.updated_kpis = kpi_id :> updated_kpi]

Next ==
    \/ Construct
    \/ \E input \in Inputs : ProcessBaseline(input)
    \/ \E input \in Inputs : ProcessIncremental(input)
    \/ \E kpi_id \in KpiIds, input \in Inputs : ProcessTargeted(kpi_id, input)

Spec == Init /\ [][Next]_vars

\* the fingerprint file is damaged on disk between two runs
DamageSignatures ==
    /\ cache.record_signatures.exists /\ cache.record_signatures.readable
    /\ cache' = [cache EXCEPT !.record_signatures = Damaged]
    /\ UNCHANGED <<config, proc, result, clock, baselined, today, call, ret, rerun>>

NextDamage ==
    \/ Next
    \/ DamageSignatures

SpecDamage == Init /\ [][NextDamage]_vars

\* midnight passes
Tick ==
    /\ today < MaxDay
    /\ today' = today + 1
    /\ UNCHANGED <<config, cache, proc, result, clock, baselined, call, ret, rerun>>

\* the runs start on the day before the last one
InitClock == Start /\ today = MaxDay - 1

NextClock ==
    \/ Next
    \/ Tick

\* the processor while the days pass
SpecClock == InitClock /\ [][NextClock]_vars

\* the state after construction over the cache directory that an earlier
\* baseline run (at time 0) on some input has left
InitResumed ==
    /\ config \in Configs
    /\ today = MaxDay
    /\ \E input \in {i \in Inputs : MissingColumns(ReadCsv(i)) = {}} :
       \E baseline_counts \in {_calculate_configurable_baseline_counts(ReadCsv(input))} :
            cache =
                [baseline_counts |-> Saved(baseline_counts),
                 kpi_cache |-> Saved(_calculate_configurable_baseline_kpis(baseline_counts, 0)),
                 last_processed |-> Saved(LastProcessed(0, NumRows(ReadCsv(input)))),
                 record_signatures |->
                    Saved(_generate_configurable_signatures(FilledFrame(ReadCsv(input)),
                                                            signature_config))]
    /\ proc = [baseline_counts |-> Load(cache.baseline_counts),
               kpi_cache |-> Load(cache.kpi_cache),
               last_processed |-> Load(cache.last_processed)]
    /\ result = NoResult
    /\ clock = 0
    /\ baselined = FALSE
    /\ call = NoCall
    /\ ret = NoReturn
    /\ rerun = FALSE

\* the processor over a cache directory that holds a baseline
SpecResumed == InitResumed /\ [][Next]_vars

----------------------------------------------------------------------------
(* Single calls of the calculators *)

\* a processor at rest about to make one of the calls
Calling(calls) ==
    /\ config = MakeConfig("standard")
    /\ cache = [baseline_counts |-> Absent, kpi_cache |-> Absent,
                last_processed |-> Absent, record_signatures |-> Absent]
    /\ proc = [baseline_counts |-> EmptyDict, kpi_cache |-> EmptyDict,
               last_processed |-> EmptyDict]
    /\ result = NoResult
    /\ clock = 0
    /\ baselined = FALSE
    /\ rerun = FALSE
    /\ today = MaxDay
    /\ call \in calls
    /\ ret = NoReturn

\* the SM001 configuration with escalation_required set, unset and absent
Sm001Configs ==
    {[Sm001Config EXCEPT !.escalation_required = e] : e \in BOOLEAN}
    \cup {[f \in DOMAIN Sm001Config \ {"escalation_required"} |-> Sm001Config[f]]}

Sm001Calls ==
    {[fn |-> "_calculate_sm001_major_incidents",
      counts |-> [priority_1_tickets |-> p1, priority_2_tickets |-> p2,
                  total_tickets |-> p1 + p2],
      targets |-> [p1_max |-> p1_max, p2_max |-> p2_max,
                   total_major_max |-> total_major_max],
      kpi_config |-> kpi_config] :
        p1 \in 0..MaxCount, p2 \in 0..MaxCount,
        p1_max \in 0..MaxCount, p2_max \in 0..MaxCount,
        total_major_max \in 0..MaxCount, kpi_config \in Sm001Configs}

CallSm001 ==
    /\ call.fn = "_calculate_sm001_major_incidents"
    /\ ~ret.returned
    /\ ret' = Returned(_calculate_sm001_major_incidents(call.counts, call.targets,
                                                        call.kpi_config, clock))
    /\ UNCHANGED <<config, cache, proc, result, clock, baselined, today, call, rerun>>

SpecSm001 == Calling(Sm001Calls) /\ [][CallSm001]_vars

\* whole percentages used as targets
Percentages == {5 * i : i \in 0..20}

Sm002Calls ==
    {[fn |-> "_calculate_sm002_backlog",
      counts |-> [servicenow_backlog_total |-> backlog_count,
                  total_tickets |-> total_incidents],
      targets |-> [backlog_max |-> backlog_max, adherence_min |-> adherence_min],
      kpi_config |-> Sm002Config("standard")] :
        backlog_count \in 0..MaxTotal, total_incidents \in 0..MaxTotal,
        backlog_max \in {0, MaxTotal}, adherence_min \in Percentages}

CallSm002 ==
    /\ call.fn = "_calculate_sm002_backlog"
    /\ ~ret.returned
    /\ ret' = Returned(_calculate_sm002_backlog(call.counts, call.targets,
                                                call.kpi_config, clock))
    /\ UNCHANGED <<config, cache, proc, result, clock, baselined, today, call, rerun>>

SpecSm002 ==
    Calling({c \in Sm002Calls :
                c.counts.servicenow_backlog_total <= c.counts.total_tickets + 1})
    /\ [][CallSm002]_vars

Sm004Calls ==
    {[fn |-> "_calculate_sm004_first_time_fix",
      counts |-> [zero_reassignments |-> ftf_count, total_tickets |-> total_contacts],
      targets |-> [ftf_rate_min |-> ftf_rate_min],
      kpi_config |-> Sm004Config("standard")] :
        ftf_count \in 0..MaxTotal, total_contacts \in 0..MaxTotal,
        ftf_rate_min \in 0..100}

CallSm004 ==
    /\ call.fn = "_calculate_sm004_first_time_fix"
    /\ ~ret.returned
    /\ ret' = Returned(_calculate_sm004_first_time_fix(call.counts, call.targets,
                                                       call.kpi_config, clock))
    /\ UNCHANGED <<config, cache, proc, result, clock, baselined, today, call, rerun>>

SpecSm004 ==
    Calling({c \in Sm004Calls : c.counts.zero_reassignments <= c.counts.total_tickets})
    /\ [][CallSm004]_vars

\* priority cells: texts with a number, a text without one, an empty cell
PriorityTexts == {<<"P", "1">>, <<"P", "2">>, <<"P", "3">>, <<"L", "o", "w">>, <<>>}

\* configurations that differ in thresholds.priority
CountsConfigs ==
    {[MakeConfig("standard") EXCEPT !.thresholds.priority =
            [major_incident_levels |-> levels, unknown_fallback |-> fallback]] :
        levels \in {<<1, 2>>, <<1, 2, 3>>}, fallback \in {99, 3}}

\* calls of the baseline counter on frames whose priority column pandas reads
\* with the object dtype: no record, or a text in at least one cell
CountsCalls ==
    LET row(p) == [priority |-> p, state |-> "Closed", reassignment_count |-> <<0>>,
                   opened_at |-> <<MaxDay - 5>>, resolved_at |-> <<MaxDay - 2>>]
        frames == UNION {[{IdOf(i) : i \in 1..n} -> {row(p) : p \in PriorityTexts}] :
                            n \in 0..MaxCount}
    IN  {[fn |-> "_calculate_configurable_baseline_counts",
          input |-> [columns |-> AllColumns, rows |-> r]] :
            r \in {f \in frames :
                      f = EmptyDict \/ \E id \in DOMAIN f : f[id].priority # <<>>}}

CallCounts ==
    /\ call.fn = "_calculate_configurable_baseline_counts"
    /\ ~ret.returned
    /\ ret' = Returned(_calculate_configurable_baseline_counts(ReadCsv(call.input)))
    /\ UNCHANGED <<config, cache, proc, result, clock, baselined, today, call, rerun>>

InitCounts ==
    /\ config \in CountsConfigs
    /\ cache = [baseline_counts |-> Absent, kpi_cache |-> Absent,
                last_processed |-> Absent, record_signatures |-> Absent]
    /\ proc = [baseline_counts |-> EmptyDict, kpi_cache |-> EmptyDict,
               last_processed |-> EmptyDict]
    /\ result = NoResult
    /\ clock = 0
    /\ baselined = FALSE
    /\ rerun = FALSE
    /\ today = MaxDay
    /\ call \in CountsCalls
    /\ ret = NoReturn

SpecCounts == InitCounts /\ [][CallCounts]_vars

\* the example record set: 100 records, 2 of priority 1, 5 of priority 2, the
\* last 8 opened 11 days ago and not resolved, the others closed within 3 days
ScenarioInput ==
    LET row(i) ==
            [priority |-> IF i <= 2 THEN <<"P", "1">>
                          ELSE IF i <= 7 THEN <<"P", "2">> ELSE <<"P", "3">>,
             state |-> IF i > 92 THEN "Open" ELSE "Closed",
             reassignment_count |-> <<0>>,
             opened_at |-> IF i > 92 THEN <<MaxDay - 11>> ELSE <<MaxDay - 5>>,
             resolved_at |-> IF i > 92 THEN <<>> ELSE <<MaxDay - 2>>]
    IN  [columns |-> AllColumns,
         rows |-> [id \in {IdOf(i) : i \in 1..100} |->
                      row(CHOOSE i \in 1..100 : IdOf(i) = id)]]

\* the calls a baseline run on the example makes to the Major Incidents
\* calculator, with no target configured, and to the Backlog calculator, with
\* adherence_min configured and backlog_max configured or not
ScenarioCalls ==
    LET counts == _calculate_configurable_baseline_counts(ReadCsv(ScenarioInput))
    IN  {[fn |-> "_calculate_sm001_major_incidents", counts |-> counts,
          targets |-> EmptyDict, kpi_config |-> Sm001Config]}
        \cup
        {[fn |-> "_calculate_sm002_backlog", counts |-> counts,
          targets |-> targets, kpi_config |-> Sm002Config("standard")] :
            targets \in {[adherence_min |-> a] : a \in 0..100}
                \cup {[adherence_min |-> a, backlog_max |-> b] :
                            a \in 0..100, b \in {7, 8}}}

NextScenario ==
    \/ CallSm001
    \/ CallSm002

SpecScenario == Calling(ScenarioCalls) /\ [][NextScenario]_vars

\* SM003 enabled by the configuration, requiring no column of the input, with
\* the given fallback_behavior
AgingConfig(fallback_behavior) ==
    [MakeConfig("optional") EXCEPT
        !.kpis.SM003.required_fields = <<>>,
        !.kpis.SM003.data_requirements.fallback_behavior = fallback_behavior]

\* global_status_rules with the four weights of the enabled SM003 adding up
\* to 100 and a weight set of their own for the disabled SM003
Reweighted ==
    [scorecard_scoring |->
        [weight_sm001 |-> 25, weight_sm002 |-> 25, weight_sm003 |-> 25, weight_sm004 |-> 25,
         sm003_disabled_weights |->
            [weight_sm001 |-> 50, weight_sm002 |-> 50, weight_sm004 |-> 25]],
     performance_bands |-> [excellent |-> 90, good |-> 80, needs_improvement |-> 60]]

\* configurations of the scorecard calls: without SM003, with KPIs whose
\* dispatch fails, with SM003 enabled under either fallback behaviour, and
\* with configured weights
ScorecardConfigs ==
    {MakeConfig("standard"), MakeConfig("extended"),
     AgingConfig("disable"), AgingConfig("calculate"),
     ("global_status_rules" :> Reweighted) @@ AgingConfig("disable")}

\* counts of record sets of up to MaxScored tickets
ScoreCounts ==
    {[total_tickets |-> total, priority_1_tickets |-> p1, priority_2_tickets |-> p2,
      zero_reassignments |-> ftf, servicenow_backlog_total |-> backlog] :
        total \in 0..MaxScored, p1 \in {0, 1}, p2 \in {0, 6},
        ftf \in 0..MaxScored, backlog \in 0..MaxScored}

\* calls of the scorecard aggregator on the KPI results the calculators give
\* for the counts
ScorecardCalls ==
    {[fn |-> "_calculate_scorecard_score",
      counts |-> counts,
      kpis |-> _calculate_configurable_baseline_kpis(counts, 0)] :
        counts \in {c \in ScoreCounts :
                        /\ c.priority_1_tickets + c.priority_2_tickets <= c.total_tickets
                        /\ c.zero_reassignments <= c.total_tickets
                        /\ c.servicenow_backlog_total <= c.total_tickets}}

CallScorecard ==
    /\ call.fn = "_calculate_scorecard_score"
    /\ ~ret.returned
    /\ ret' = Returned(_calculate_scorecard_score(call.kpis, clock))
    /\ UNCHANGED <<config, cache, proc, result, clock, baselined, today, call, rerun>>

InitScorecard ==
    /\ config \in ScorecardConfigs
    /\ cache = [baseline_counts |-> Absent, kpi_cache |-> Absent,
                last_processed |-> Absent, record_signatures |-> Absent]
    /\ proc = [baseline_counts |-> EmptyDict, kpi_cache |-> EmptyDict,
               last_processed |-> EmptyDict]
    /\ result = NoResult
    /\ clock = 0
    /\ baselined = FALSE
    /\ rerun = FALSE
    /\ today = MaxDay
    /\ call \in ScorecardCalls
    /\ ret = NoReturn

SpecScorecard == InitScorecard /\ [][CallScorecard]_vars

\* records opened long ago or lately; unresolved, resolved the day after, or
\* resolved after more than the backlog threshold
BacklogRows ==
    {[priority |-> <<"P", "3">>, state |-> "Closed", reassignment_count |-> <<0>>,
      opened_at |-> <<opened>>, resolved_at |-> resolved] :
        opened \in {MaxDay - 12, MaxDay - 2},
        resolved \in {<<>>, <<MaxDay - 11>>, <<MaxDay - 1>>}}

\* calls of the baseline counter and of the targeted counter for SM002 on
\* frames of up to MaxCount records that were resolved, if at all, after
\* they were opened
BacklogCalls ==
    LET rows == {row \in BacklogRows :
                    row.resolved_at # <<>> => row.resolved_at[1] > row.opened_at[1]}
        frames == UNION {[{IdOf(i) : i \in 1..n} -> rows] : n \in 0..MaxCount}
    IN  {[fn |-> fn, input |-> [columns |-> AllColumns, rows |-> r]] :
            fn \in {"_calculate_configurable_baseline_counts",
                    "_calculate_targeted_kpi_counts"},
            r \in frames}

CallTargetedCounts ==
    /\ call.fn = "_calculate_targeted_kpi_counts"
    /\ ~ret.returned
    /\ ret' = Returned(_calculate_targeted_kpi_counts(ReadCsv(call.input), "SM002"))
    /\ UNCHANGED <<config, cache, proc, result, clock, baselined, today, call, rerun>>

NextBacklog ==
    \/ CallCounts
    \/ CallTargetedCounts

SpecBacklog == Calling(BacklogCalls) /\ [][NextBacklog]_vars

\* the rows of the input files, and the same rows opened on another day
SignatureRows ==
    RowValues \cup {[row EXCEPT !.opened_at = <<MaxDay - 1>>] : row \in RowValues}

\* input files of up to n records, with the column sets of the input files
\* or with no column that is a signature field
SignatureInputs(n) ==
    {[columns |-> c,
      rows |-> [id \in DOMAIN r |->
                   [r[id] EXCEPT
                      !.reassignment_count =
                          IF "reassignment_count" \in c THEN @ ELSE <<>>,
                      !.resolved_at = IF "resolved_at" \in c THEN @ ELSE <<>>]]] :
        c \in ColumnSets \cup {{"opened_at"}},
        r \in UNION {[{IdOf(i) : i \in 1..m} -> SignatureRows] : m \in 0..n}}

\* calls of the signature generator on two input files
SignatureCalls ==
    {[fn |-> "_generate_configurable_signatures", input |-> input, other |-> other] :
        input \in SignatureInputs(MaxRecords),
        other \in SignatureInputs(MaxRecords + 1)}

CallSignatures ==
    /\ call.fn = "_generate_configurable_signatures"
    /\ ~ret.returned
    /\ ret' = Returned(
            [input |-> _generate_configurable_signatures(ReadCsv(call.input),
                                                         signature_config),
             other |-> _generate_configurable_signatures(ReadCsv(call.other),
                                                         signature_config)])
    /\ UNCHANGED <<config, cache, proc, result, clock, baselined, today, call, rerun>>

SpecSignatures == Calling(SignatureCalls) /\ [][CallSignatures]_vars

\* calls of the change detector on an input file, over the fingerprints a
\* baseline run on the fingerprinted file has stored
DetectCalls ==
    {[fn |-> "_detect_configurable_changes", fingerprinted |-> fingerprinted,
      input |-> input] :
        fingerprinted \in {i \in SignatureInputs(MaxRecords + 1) : i.columns = AllColumns},
        input \in SignatureInputs(MaxRecords + 1)}

CallDetect ==
    /\ call.fn = "_detect_configurable_changes"
    /\ ~ret.returned
    /\ ret' = Returned(_detect_configurable_changes(ReadCsv(call.input)))
    /\ UNCHANGED <<config, cache, proc, result, clock, baselined, today, call, rerun>>

InitDetect ==
    /\ config = MakeConfig("standard")
    /\ today = MaxDay
    /\ call \in DetectCalls
    /\ cache = [baseline_counts |-> Absent, kpi_cache |-> Absent,
                last_processed |-> Absent,
                record_signatures |->
                    Saved(_generate_configurable_signatures(
                            FilledFrame(ReadCsv(call.fingerprinted)), signature_config))]
    /\ proc = [baseline_counts |-> EmptyDict, kpi_cache |-> EmptyDict,
               last_processed |-> EmptyDict]
    /\ result = NoResult
    /\ clock = 0
    /\ baselined = FALSE
    /\ rerun = FALSE
    /\ ret = NoReturn

SpecDetect == InitDetect /\ [][CallDetect]_vars

----------------------------------------------------------------------------
(* Properties *)

\* the step is a run of the given mode
RunStep(mode) == clock' = clock + 1 /\ result'.mode = mode

\* the fingerprint table of an input file as change detection computes it
TableOf(input) == _generate_configurable_signatures(ReadCsv(input), signature_config)

\* the KPI results a baseline run over input computes at time now
BaselineKpisOf(input, now) ==
    _calculate_configurable_baseline_kpis(
        _calculate_configurable_baseline_counts(ReadCsv(input)), now)

\* C1: an incremental run that completes right after a successful baseline on
\* the identical input, over the same cache directory, returns
\* changes_detected = false.
C1_UnchangedInputNoChanges ==
    [][(/\ result.mode = "baseline" /\ result.status = "ok"
        /\ RunStep("incremental")
        /\ result'.status = "ok"
        /\ result'.input = result.input)
       => ~result'.changes_detected]_vars

\* C2: after a successful incremental run that detected changes, the persisted
\* fingerprint table is the fingerprint table of that run's input.
C2_FingerprintsReplacedAfterIncremental ==
    (result.mode = "incremental" /\ result.status = "ok" /\ result.changes_detected)
    => /\ cache.record_signatures.exists
       /\ cache.record_signatures.data = TableOf(result.input)

\* C3: once process_baseline has completed on the instance, process_incremental
\* on that instance does not fail with 'No baseline found'.
C3_IncrementalAdmittedAfterBaseline ==
    [][(baselined /\ RunStep("incremental")) => result'.error # "no_baseline"]_vars

\* C4: process_incremental without a baseline counts blob fails with the
\* 'No baseline found' error and leaves the four cache blobs (and the
\* instance) as they were.
C4_NoImplicitBaseline ==
    [][(RunStep("incremental") /\ ~cache.baseline_counts.exists)
       => /\ result'.status = "error"
          /\ result'.error = "no_baseline"
          /\ UNCHANGED <<cache, proc>>]_vars

C4_Witness ==
    /\ result.mode = "incremental"
    /\ result.error = "no_baseline"
    /\ ~cache.baseline_counts.exists
    /\ cache.kpi_cache.exists

\* C5: when every record of the input has the fingerprint stored for it, an
\* admitted incremental run returns changes_detected = false with no updated
\* KPI, and leaves the four cache blobs (and the instance) as they were.
C5_NoChangesShortCircuit ==
    [][(/\ RunStep("incremental")
        /\ result'.error # "no_baseline"
        /\ LET current == TableOf(result'.input)
               previous == Load(cache.record_signatures)
           IN  \A id \in DOMAIN current :
                   id \in DOMAIN previous /\ current[id] = previous[id])
       => /\ result'.status = "ok"
          /\ ~result'.changes_detected
          /\ result'.affected_kpis = {}
          /\ result'.updated_kpis = EmptyDict
          /\ UNCHANGED <<cache, proc>>]_vars

C5_Witness ==
    /\ result.mode = "incremental"
    /\ result.status = "ok"
    /\ ~result.changes_detected
    /\ DOMAIN result.input.rows = Ids
    /\ cache.record_signatures.data = TableOf(result.input)

\* C6: a baseline or incremental run that fails leaves every cache blob with
\* the value it had before the run.
C6_FailedRunWritesNothing ==
    [][(/\ clock' = clock + 1
        /\ result'.mode \in {"baseline", "incremental"}
        /\ result'.status = "error")
       => UNCHANGED cache]_vars

\* C7: after a successful targeted run for KPI k the persisted KPI cache is the
\* one persisted before the run with only the entry for k replaced.
C7_TargetedPreservesOtherEntries ==
    [][(RunStep("targeted") /\ result'.status = "ok")
       => LET before == Load(cache.kpi_cache)
              after == Load(cache'.kpi_cache)
              k == result'.target_kpi
          IN  /\ DOMAIN after = DOMAIN before \cup {k}
              /\ \A j \in DOMAIN before \ {k} : after[j] = before[j]]_vars

\* C8: process_targeted(k, input) fails, before any cache write, exactly when
\* k is not configured, or k is disabled, or a required field of k is absent
\* from the input columns; in the last case the error names exactly the absent
\* required fields.
C8_TargetedFailsExactlyWhen ==
    [][RunStep("targeted")
       => LET k == result'.target_kpi
              required == Range(Get(kpis_config[k], "required_fields", <<>>))
          IN  /\ k \notin DOMAIN kpis_config
                    => result'.status = "error" /\ result'.error = "kpi_not_found"
              /\ (k \in DOMAIN kpis_config /\ ~Get(kpis_config[k], "enabled", TRUE))
                    => result'.status = "error" /\ result'.error = "kpi_disabled"
              /\ (k \in DOMAIN kpis_config /\ Get(kpis_config[k], "enabled", TRUE))
                    => /\ result'.status = "error"
                            <=> ~(required \subseteq result'.input.columns)
                       /\ result'.status = "error"
                            => /\ result'.error = "missing_fields"
                               /\ result'.missing_fields = required \ result'.input.columns
              /\ result'.status = "error" => UNCHANGED <<cache, proc>>
              /\ result'.status = "ok" => cache'.kpi_cache.exists]_vars

C8_Witness ==
    /\ result.mode = "targeted"
    /\ result.target_kpi = "SM004"
    /\ result.error = "missing_fields"
    /\ result.missing_fields = {"reassignment_count"}
    /\ DOMAIN result.input.rows # {}
    /\ cache.kpi_cache.exists

\* exactly one record differs between the two inputs, and only in its
\* reassignment_count
OneReassignmentCountDiffers(a, b) ==
    /\ a.columns = b.columns
    /\ "reassignment_count" \in a.columns
    /\ DOMAIN a.rows = DOMAIN b.rows
    /\ \E id \in DOMAIN a.rows :
          /\ a.rows[id].reassignment_count # b.rows[id].reassignment_count
          /\ [a.rows[id] EXCEPT !.reassignment_count = <<>>]
                = [b.rows[id] EXCEPT !.reassignment_count = <<>>]
          /\ \A other \in DOMAIN a.rows \ {id} : a.rows[other] = b.rows[other]

\* C9: when exactly one record's reassignment_count differs between the
\* baseline input and the following incremental input, affected_kpis is the
\* set of enabled KPIs whose required_fields contain reassignment_count.
C9_OnlyKpisRequiringChangedField ==
    [][(/\ result.mode = "baseline" /\ result.status = "ok"
        /\ RunStep("incremental")
        /\ result'.status = "ok"
        /\ OneReassignmentCountDiffers(result.input, result'.input))
       => result'.affected_kpis =
            {k \in DOMAIN kpis_config :
                /\ Enabled(k)
                /\ "reassignment_count" \in Range(Get(kpis_config[k], "required_fields", <<>>))}]_vars

\* C10: every entry of updated_kpis of an incremental run, over an input a
\* baseline run accepts, equals the result a baseline run over the same input
\* computes for that KPI (at the same time).
C10_UpdatedKpisRecomputedFromInput ==
    (/\ result.mode = "incremental" /\ result.status = "ok" /\ result.changes_detected
     /\ MissingColumns(ReadCsv(result.input)) = {})
    => \A k \in DOMAIN result.updated_kpis :
          LET fresh == BaselineKpisOf(result.input,
                                      result.updated_kpis[k].calculation_timestamp)
          IN  k \in DOMAIN fresh /\ result.updated_kpis[k] = fresh[k]

\* a KPI result map without the calculation timestamps
StripTimestamps(kpis) ==
    [k \in DOMAIN kpis |->
        [f \in DOMAIN kpis[k] \ {"calculation_timestamp"} |-> kpis[k][f]]]

\* two baseline envelopes agree on counts, KPI results and scorecard, the
\* calculation timestamps aside
SameBaselineOutcome(a, b) ==
    /\ a.baseline_counts = b.baseline_counts
    /\ StripTimestamps(a.baseline_kpis) = StripTimestamps(b.baseline_kpis)
    /\ [f \in DOMAIN a.overall_score \ {"calculation_timestamp"} |-> a.overall_score[f]]
       = [f \in DOMAIN b.overall_score \ {"calculation_timestamp"} |-> b.overall_score[f]]

\* the step is a successful baseline run repeating the successful baseline
\* run before it on the same input
BaselineRepeated ==
    /\ result.mode = "baseline" /\ result.status = "ok"
    /\ RunStep("baseline") /\ result'.status = "ok"
    /\ result'.input = result.input

FallbackDisable(kpi_id) ==
    Get(Get(kpis_config[kpi_id], "data_requirements", EmptyDict),
        "fallback_behavior", "") = "disable"

\* the enabled KPIs that have a required field the frame lacks
KpisLackingFields(df) ==
    {k \in DOMAIN kpis_config :
        Enabled(k) /\ ~(Range(Get(kpis_config[k], "required_fields", <<>>)) \subseteq df.columns)}

\* C12: a baseline run on a record set that lacks a required field of an
\* enabled KPI fails and writes no cache blob, unless every such KPI has
\* data_requirements.fallback_behavior = disable: then the run completes and
\* each of those KPIs has a result with status 'Disabled'.
C12_MissingFieldFatalUnlessDisable ==
    [][RunStep("baseline") =>
        LET lacking == KpisLackingFields(ReadCsv(result'.input))
            fatal == {k \in lacking : ~FallbackDisable(k)}
        IN  /\ fatal # {} => (result'.status = "error" /\ UNCHANGED cache)
            /\ (fatal = {} /\ lacking # {}) =>
                    /\ result'.status = "ok"
                    /\ \A k \in lacking :
                            /\ k \in DOMAIN result'.baseline_kpis
                            /\ result'.baseline_kpis[k].status = "Disabled"]_vars

\* the enabled KPIs whose dispatch yields nothing for the counts: the pair
\* (kpi_id, calculation method) is not recognised, or the calculator raises
DispatchFailed(counts, now) ==
    {k \in DOMAIN kpis_config :
        Enabled(k) /\ Dispatch(k, kpis_config[k], counts, now) \in {EmptyDict, TypeError}}

\* C13: a baseline run on a record set with every required column completes;
\* an enabled KPI whose dispatch pair is not recognised or whose calculator
\* raises is absent from baseline_kpis, and every other enabled KPI has the
\* result of its calculator in baseline_kpis, in the persisted KPI cache and,
\* when the weight set names it, a score in the scorecard.
C13_DispatchIsolatedPerKpi ==
    [][(RunStep("baseline") /\ MissingColumns(ReadCsv(result'.input)) = {}) =>
        LET counts == _calculate_configurable_baseline_counts(ReadCsv(result'.input))
            failed == DispatchFailed(counts, clock')
            others == {k \in DOMAIN kpis_config : Enabled(k)} \ failed
            scorecard == result'.overall_score
        IN  /\ result'.status = "ok"
            /\ DOMAIN result'.baseline_kpis = others
            /\ \A k \in others :
                    /\ result'.baseline_kpis[k] = Dispatch(k, kpis_config[k], counts, clock')
                    /\ k \in DOMAIN scorecard.weights_used =>
                            /\ k \in DOMAIN scorecard.kpi_scores
                            /\ scorecard.kpi_scores[k].score =
                                    _get_kpi_score(k, result'.baseline_kpis[k])
            /\ DOMAIN scorecard.kpi_scores = others \cap DOMAIN scorecard.weights_used
            /\ cache'.kpi_cache = Saved(result'.baseline_kpis)]_vars

\* a completed baseline run in which SM002 has an unrecognised method and the
\* SM004 calculator raised: SM001 alone is calculated, persisted and scored
C13_Witness ==
    /\ result.mode = "baseline" /\ result.status = "ok"
    /\ kpis_config["SM002"].calculation.method = "backlog_v2"
    /\ IsNone(kpis_config["SM004"], "ftf_rate_min")
    /\ result.records_processed > 0
    /\ DOMAIN result.baseline_kpis = {"SM001"}
    /\ DOMAIN cache.kpi_cache.data = {"SM001"}
    /\ DOMAIN result.overall_score.kpi_scores = {"SM001"}

\* C14: an incremental run that finds baseline counts and a fingerprint file
\* that exists but cannot be read completes, with every record of the input
\* classified as new: changes are detected exactly when the input has a
\* record, and the KPIs requiring a present signature field are affected.
C14_UnreadableFingerprintsTreatedAsEmpty ==
    [][(RunStep("incremental") /\ ~NoBaseline /\ SignaturesUnreadable) =>
        /\ result'.status = "ok"
        /\ result'.changes_detected = (result'.input.rows # EmptyDict)
        /\ result'.changes_detected =>
                result'.affected_kpis =
                    _determine_affected_kpis_configurable(ReadCsv(result'.input),
                                                          DOMAIN result'.input.rows)]_vars

\* C15: the Major Incidents calculator returns Critical exactly when
\* p1 > p1_max; otherwise Above Target exactly when p2 > p2_max or
\* p1 + p2 > total_major_max; otherwise Target Met; and escalation_required
\* is true exactly when p1 > p1_max and the KPI configuration sets
\* escalation_required.
C15_MajorIncidentsStatus ==
    (ret.returned /\ call.fn = "_calculate_sm001_major_incidents") =>
        LET p1 == call.counts.priority_1_tickets
            p2 == call.counts.priority_2_tickets
            critical == p1 > call.targets.p1_max
            above == p2 > call.targets.p2_max \/ p1 + p2 > call.targets.total_major_max
        IN  /\ ret.value.status =
                    IF critical THEN "Critical"
                    ELSE IF above THEN "Above Target" ELSE "Target Met"
            /\ ret.value.escalation_required =
                    (critical /\ Get(call.kpi_config, "escalation_required", FALSE))

\* P1 at its maximum and P2 within its own: the total alone is exceeded, the
\* status is Above Target and no escalation is required although configured
C15_Witness ==
    /\ ret.returned /\ call.fn = "_calculate_sm001_major_incidents"
    /\ call.counts.priority_1_tickets = call.targets.p1_max
    /\ call.counts.priority_1_tickets > 0
    /\ call.counts.priority_2_tickets <= call.targets.p2_max
    /\ call.counts.priority_1_tickets + call.counts.priority_2_tickets
            > call.targets.total_major_max
    /\ Get(call.kpi_config, "escalation_required", FALSE)
    /\ ret.value.status = "Above Target"
    /\ ~ret.value.escalation_required

\* C16: the Backlog calculator returns adherence
\* max(0, 100 - backlog_count / total * 100), 100 when total = 0 (reported to
\* one decimal), and Target Met exactly when backlog_count <= backlog_max and
\* adherence >= adherence_min; otherwise Critical exactly when
\* adherence < 50; otherwise Needs Improvement.
C16_BacklogStatus ==
    (ret.returned /\ call.fn = "_calculate_sm002_backlog") =>
        LET backlog_count == call.counts.servicenow_backlog_total
            total == call.counts.total_tickets
            \* adherence = num / den
            den == IF total = 0 THEN 1 ELSE total
            num == IF total = 0 THEN 100 ELSE Max(0, 100 * (total - backlog_count))
        IN  /\ ret.value.adherence_rate = RoundDiv(10 * num, den)
            /\ ret.value.status =
                    IF /\ backlog_count <= call.targets.backlog_max
                       /\ num >= call.targets.adherence_min * den
                    THEN "Target Met"
                    ELSE IF num < 50 * den THEN "Critical"
                    ELSE "Needs Improvement"

\* the call is made on the counts of the example record set
OnScenario ==
    /\ ret.returned
    /\ call.counts.total_tickets = 100
    /\ call.counts.priority_1_tickets = 2
    /\ call.counts.priority_2_tickets = 5
    /\ call.counts.servicenow_backlog_total = 8

\* C17 as stated: on the example record set with default targets, Major
\* Incidents is Critical, Backlog adherence is 92.0 and the Backlog status is
\* Target Met for every configured adherence_min <= 92.
C17_Scenario ==
    OnScenario =>
        /\ call.fn = "_calculate_sm001_major_incidents" => ret.value.status = "Critical"
        /\ call.fn = "_calculate_sm002_backlog" =>
                /\ ret.value.adherence_rate = 920
                /\ ("backlog_max" \notin DOMAIN call.targets
                        /\ call.targets.adherence_min <= 92)
                    => ret.value.status = "Target Met"

\* C17 amended: on the example record set, Major Incidents with default
\* targets is Critical, Backlog adherence is 92.0, and the Backlog status is
\* Target Met exactly when backlog_max is at least 8 and adherence_min at
\* most 92, and Needs Improvement otherwise: with the default backlog_max of
\* 0 it is Needs Improvement for every adherence_min.
C17_ScenarioNeedsBacklogMax ==
    (ret.returned /\ call.counts.total_tickets = 100) =>
        /\ call.counts.priority_1_tickets = 2
        /\ call.counts.priority_2_tickets = 5
        /\ call.counts.servicenow_backlog_total = 8
        /\ call.fn = "_calculate_sm001_major_incidents" => ret.value.status = "Critical"
        /\ call.fn = "_calculate_sm002_backlog" =>
                /\ ret.value.adherence_rate = 920
                /\ ret.value.status =
                        IF Get(call.targets, "backlog_max", 0) >= 8
                            /\ call.targets.adherence_min <= 92
                        THEN "Target Met" ELSE "Needs Improvement"

\* the Backlog calculator has returned Needs Improvement on the example with
\* the default backlog_max and adherence_min = 92
C17_Witness ==
    /\ OnScenario
    /\ call.fn = "_calculate_sm002_backlog"
    /\ "backlog_max" \notin DOMAIN call.targets
    /\ call.targets.adherence_min = 92
    /\ ret.value.adherence_rate = 920
    /\ ret.value.status = "Needs Improvement"

\* C18: for 0 <= ftf_count <= total and a minimum rate m the First Time Fix
\* calculator returns Target Met exactly when ftf_count / total * 100 >= m
\* (the rate being 0 when total = 0), otherwise Critical exactly when the
\* rate is below 60, otherwise Below Target; gap_incidents is
\* max(0, floor(total * m / 100) - ftf_count), and is 0 whenever the status
\* is Target Met.
C18_FirstTimeFixStatus ==
    (ret.returned /\ call.fn = "_calculate_sm004_first_time_fix") =>
        LET ftf_count == call.counts.zero_reassignments
            total == call.counts.total_tickets
            m == call.targets.ftf_rate_min
            \* rate = num / den
            den == IF total = 0 THEN 1 ELSE total
            num == IF total = 0 THEN 0 ELSE 100 * ftf_count
        IN  /\ ret.value.status =
                    IF num >= m * den THEN "Target Met"
                    ELSE IF num < 60 * den THEN "Critical"
                    ELSE "Below Target"
            /\ ret.value.gap_incidents = Max(0, ((total * m) \div 100) - ftf_count)
            /\ ret.value.status = "Target Met" => ret.value.gap_incidents = 0

\* the KPI results of the last run's envelope
KpiResults ==
    {result.baseline_kpis[k] : k \in DOMAIN result.baseline_kpis}
    \cup {result.updated_kpis[k] : k \in DOMAIN result.updated_kpis}

NumericMatch(chars) == \E i \in 1..Len(chars) : chars[i] \in Digits

\* C20: in the counts of the baseline counter the priority_k_tickets of the
\* configured major levels add up to at most total_tickets, and each
\* priority_k_tickets counts only records whose priority text holds a number:
\* a record without a numeric match is counted in no bucket.
C20_UnknownPriorityInNoBucket ==
    (ret.returned /\ call.fn = "_calculate_configurable_baseline_counts") =>
        LET levels == Range(config.thresholds.priority.major_incident_levels)
            rows == call.input.rows
            bucket(level) == ret.value["priority_" \o IntStr(level) \o "_tickets"]
        IN  /\ SumOver([l \in levels |-> bucket(l)], levels) <= ret.value.total_tickets
            /\ \A l \in levels :
                    bucket(l) = Cardinality({id \in DOMAIN rows :
                                    /\ NumericMatch(rows[id].priority)
                                    /\ ExtractPriority(rows[id].priority, 0) = l})

\* the scorecard aggregator has returned
Scored == ret.returned /\ call.fn = "_calculate_scorecard_score"

\* sum of weight * score over the KPIs of the scorecard, in thousandths
WeightedTotal(scorecard) ==
    SumOver([k \in DOMAIN scorecard.kpi_scores |->
                scorecard.kpi_scores[k].weight * scorecard.kpi_scores[k].score],
            DOMAIN scorecard.kpi_scores)

\* C21: in every scorecard, whether or not SM003 is enabled and has data,
\* the weights used add up to 100 (percent), overall_score is the sum over
\* the weighted KPIs of weight * score (to one decimal) and lies in [0, 100].
C21_WeightsSumTo100 ==
    Scored =>
        LET scorecard == ret.value
            weights == scorecard.weights_used
        IN  /\ SumOver(weights, DOMAIN weights) = 100
            /\ 100 * scorecard.overall_score - WeightedTotal(scorecard) \in -50..50
            /\ scorecard.overall_score \in 0..1000

\* the score the scoring rule gives a KPI result, in tenths of a point
RuleScore(kpi_id, kpi_data) ==
    LET clamped(rate) == IF rate < 0 THEN 0 ELSE IF rate > 1000 THEN 1000 ELSE rate
    IN  IF kpi_id = "SM001"
        THEN (IF kpi_data.status = "Target Met" THEN 1000
              ELSE IF kpi_data.status = "Above Target" THEN 500 ELSE 0)
        ELSE IF kpi_id = "SM002" THEN clamped(kpi_data.adherence_rate)
        ELSE IF kpi_id = "SM004" THEN clamped(kpi_data.ftf_rate)
        ELSE IF kpi_data.status \in {"Disabled", "No Data"} THEN 1000
        ELSE clamped(kpi_data.adherence_rate)

\* the band of a score in tenths of a point under the configured cutoffs
BandOf(score, tenth) ==
    LET performance_bands == Get(status_rules, "performance_bands", EmptyDict)
        cutoff(band, default) == tenth * Get(performance_bands, band, default)
    IN  IF score >= cutoff("excellent", 90) THEN "Excellent"
        ELSE IF score >= cutoff("good", 80) THEN "Good"
        ELSE IF score >= cutoff("needs_improvement", 60) THEN "Needs Improvement"
        ELSE "Poor"

\* C24 as stated: the scorecard gives each weighted KPI present in the
\* results a score in [0, 100] (SM001: Target Met 100, Above Target 50,
\* anything else 0; SM002 and SM004: the rate clamped to [0, 100]; SM003
\* Disabled or No Data: 100), a KPI absent from the results has no score, and
\* the band is the one of the reported overall_score under the descending
\* cutoffs (Excellent, Good, Needs Improvement, else Poor).
C24_ScoresAndBand ==
    Scored =>
        LET scorecard == ret.value
        IN  /\ DOMAIN scorecard.kpi_scores = DOMAIN scorecard.weights_used \cap DOMAIN call.kpis
            /\ \A k \in DOMAIN scorecard.kpi_scores :
                    /\ scorecard.kpi_scores[k].score \in 0..1000
                    /\ scorecard.kpi_scores[k].score = RuleScore(k, call.kpis[k])
            /\ scorecard.performance_band = BandOf(scorecard.overall_score, 10)

C22_RunMetadataDescribesRun ==
    [][(clock' = clock + 1 /\ result'.status = "ok") =>
        /\ cache'.last_processed.exists
        /\ cache'.last_processed.data.timestamp = clock'
        /\ cache'.last_processed.data.record_count = Cardinality(DOMAIN result'.input.rows)
        /\ cache'.last_processed.data.config_version = config.metadata.version]_vars

\* C23: the backlog count of the baseline counter and of the targeted
\* counter counts a record exactly when it has a resolution date and
\* resolved_at - opened_at exceeds the backlog threshold, or has none and
\* now - opened_at exceeds it: a record resolved within the threshold is not
\* counted, however long ago it was opened.
C23_BacklogByResolutionTime ==
    (ret.returned /\ call.fn \in {"_calculate_configurable_baseline_counts",
                                  "_calculate_targeted_kpi_counts"}) =>
        LET rows == call.input.rows
            threshold == config.thresholds.aging.backlog_days
            backlog(row) ==
                \/ /\ row.resolved_at # <<>>
                   /\ row.resolved_at[1] - row.opened_at[1] > threshold
                \/ /\ row.resolved_at = <<>>
                   /\ today - row.opened_at[1] > threshold
        IN  ret.value.servicenow_backlog_total =
                Cardinality({id \in DOMAIN rows : backlog(rows[id])})

\* the signature generator has returned for both files of the call
Fingerprinted == ret.returned /\ call.fn = "_generate_configurable_signatures"

\* the values a record of the file has in the configured signature fields,
\* in the configured order (a field without a column has no value)
SignatureValues(input, id) ==
    [i \in 1..Len(signature_config) |->
        LET field == signature_config[i]
        IN  IF field \notin input.columns THEN [present |-> FALSE]
            ELSE IF field = "number" THEN [present |-> TRUE, value |-> id]
            ELSE [present |-> TRUE, value |-> input.rows[id][field]]]

\* C25: the fingerprint of a record is a function of its values in the
\* configured signature fields alone: a record has the same fingerprint in
\* two files in which it has the same values of those fields, whatever its
\* other fields and whatever the other records of the files.
C25_FingerprintOfSignatureFieldsOnly ==
    Fingerprinted =>
        \A id \in DOMAIN ret.value.input \cap DOMAIN ret.value.other :
            SignatureValues(call.input, id) = SignatureValues(call.other, id)
                => ret.value.input[id] = ret.value.other[id]

EntryOf(blob, kpi_id) ==
    IF blob.exists /\ kpi_id \in DOMAIN blob.data THEN <<blob.data[kpi_id]>> ELSE <<>>

\* C27: after an incremental run that detected changes and completed, every
\* KPI that is not affected has in the persisted KPI cache the entry that
\* was persisted before the run, and the scorecard of the envelope is the
\* one of the whole persisted map (cached and recomputed entries).
C27_UnaffectedKpisKeepEntry ==
    [][(RunStep("incremental") /\ result'.status = "ok" /\ result'.changes_detected) =>
        /\ \A k \in KpiIds \ result'.affected_kpis :
                EntryOf(cache'.kpi_cache, k) = EntryOf(cache.kpi_cache, k)
        /\ result'.overall_score =
                _calculate_scorecard_score(cache'.kpi_cache.data, clock')]_vars

C29_TotalTicketsIsRecordCount ==
    (cache.baseline_counts.exists /\ cache.last_processed.exists) =>
        cache.baseline_counts.data.total_tickets = cache.last_processed.data.record_count

\* C24 amended: the scores are as stated, a KPI absent from the results has
\* no score, and the band is the one the descending cutoffs give to the
\* weighted sum of the scores before it is rounded: the reported
\* overall_score, rounded to one decimal, may reach a cutoff that the band
\* does not.
C24_ScoresAndBandOfSum ==
    Scored =>
        LET scorecard == ret.value
        IN  /\ DOMAIN scorecard.kpi_scores = DOMAIN scorecard.weights_used \cap DOMAIN call.kpis
            /\ \A k \in DOMAIN scorecard.kpi_scores :
                    /\ scorecard.kpi_scores[k].score \in 0..1000
                    /\ scorecard.kpi_scores[k].score = RuleScore(k, call.kpis[k])
            /\ scorecard.performance_band = BandOf(WeightedTotal(scorecard), 1000)

\* the weighted sum is 89.975 with the default cutoffs: the scorecard reports
\* overall_score 90.0 and the band Good
C24_Witness ==
    /\ Scored
    /\ "global_status_rules" \notin DOMAIN config
    /\ WeightedTotal(ret.value) = 89975
    /\ ret.value.overall_score = 900
    /\ ret.value.performance_band = "Good"

====
